---- MODULE Spec2Model ----
(***************************************************************************)
(* Model of forbish/traefik-provider, package internal:                    *)
(*   config.go : Endpoint, TLS, Config, Endpoint.buildURI,                 *)
(*               Config.PrepareClients                                     *)
(*   client.go : Client, Client.httpCall, Client.prepareResponse,          *)
(*               Client.FetchRaw                                           *)
(*                                                                         *)
(* Go strings that the code inspects or concatenates (router keys, hosts,  *)
(* URIs) are sequences of one-character strings, so that HasSuffix, Split  *)
(* and Sprintf are computed on characters.  Opaque strings (rules, the     *)
(* resolver name, the middleware name) stay TLA+ strings.                  *)
(* A Go pointer is a sequence of length 0 (nil) or 1 (the pointee).        *)
(* A Go map is a function; len(m) is Cardinality(DOMAIN m).                *)
(***************************************************************************)
EXTENDS Integers, Sequences, FiniteSets, TLC

VARIABLES
    \* ---- one call of Client.prepareResponse
    c,          \* the receiver: [endpoint, resolver, insecure]
    res,        \* the decoded document handed to prepareResponse
    order,      \* the order in which the range over res.HTTP.Routers ran
    output,     \* the returned *dynamic.Configuration (pointee)
    pc,         \* "call" | "returned" | "panicked"
    \* ---- one poll cycle: one FetchRaw per client on a shared out channel
    clients,    \* sequence of Client
    served,     \* what each endpoint's API answers in this cycle
    fpc,        \* per call: "start" | "send" | "return" | "done" | "panicked"
    sending,    \* per call: the value of the pending `out <- v`
    ret,        \* per call: the returned error (pointer), once returned
    sent,       \* per call: the values it has sent on out so far
    out,        \* the channel's buffer
    cap,        \* the channel's capacity
    received,   \* what the collector has received, in arrival order
    \* ---- one call of Config.PrepareClients
    cfg,        \* the receiver: [Endpoints, TLSResolver]
    cpc,        \* "loop" | "returned"
    idx,        \* index of the endpoint being probed
    pidx,       \* 1 = endpoint.API, 2 = endpoint.WEB
    built,      \* the local slice `out` of PrepareClients
    probes,     \* the URIs for which a request was attempted, in order
    cret        \* the returned pair [clients, err]

tvars == <<c, res, order, output, pc>>
fvars == <<clients, served, fpc, sending, ret, sent, out, cap, received>>
cvars == <<cfg, cpc, idx, pidx, built, probes, cret>>
vars == <<tvars, fvars, cvars>>

----------------------------------------------------------------------------
\* Bounds of the model.

MaxRouters == 2      \* router entries in a decoded document
MaxServices == 2     \* service entries in a decoded document
MaxEndpoints == 2    \* configured endpoints in PrepareClients
ChanCap == 1         \* largest capacity of the out channel

----------------------------------------------------------------------------
\* Pointers and maps.

Nil == <<>>
Ptr(x) == <<x>>
Deref(p) == p[1]

EmptyMap == <<>>
Put(m, k, v) == [x \in (DOMAIN m) \cup {k} |-> IF x = k THEN v ELSE m[x]]
MapLen(m) == Cardinality(DOMAIN m)

----------------------------------------------------------------------------
\* Strings.

\* strings.HasSuffix
HasSuffix(s, suffix) ==
    /\ Len(s) >= Len(suffix)
    /\ SubSeq(s, Len(s) - Len(suffix) + 1, Len(s)) = suffix

\* The index of the first sep in s, or 0.
RECURSIVE IndexFrom(_, _, _)
IndexFrom(s, sep, i) ==
    IF i > Len(s) THEN 0
    ELSE IF s[i] = sep THEN i
    ELSE IndexFrom(s, sep, i + 1)

\* strings.Split(s, sep)[0] for a one-character sep
SplitFirst(s, sep) ==
    LET i == IndexFrom(s, sep, 1)
    IN IF i = 0 THEN s ELSE SubSeq(s, 1, i - 1)

\* strconv for %d of a non-negative int
Digit(d) == <<"0", "1", "2", "3", "4", "5", "6", "7", "8", "9">>[d + 1]
RECURSIVE Itoa(_)
Itoa(n) == IF n < 10 THEN <<Digit(n)>> ELSE Itoa(n \div 10) \o <<Digit(n % 10)>>

internalSuffix == <<"@", "i", "n", "t", "e", "r", "n", "a", "l">>
secureSuffix == <<"-", "s", "e", "c", "u", "r", "e">>
http2https == "http2https"
defaultPath == <<"/">>
defaultRawPath == <<"/", "a", "p", "i", "/", "r", "a", "w", "d", "a", "t", "a">>

----------------------------------------------------------------------------
\* config.go: Endpoint and buildURI.

\* fmt.Sprintf("%s:%d", e.Host, port), then url.URL.String()
buildURI(e, port, path) ==
    LET host == e.Host \o <<":">> \o Itoa(port)
        scheme == IF e.TLS # Nil THEN <<"h", "t", "t", "p", "s">>
                  ELSE <<"h", "t", "t", "p">>
    IN scheme \o <<":", "/", "/">> \o host \o path

HostA == <<"a">>
HostBA == <<"b", "-", "a">>
HostSecure == <<"s", "e", "c", "u", "r", "e">>

EndpointA == [Host |-> HostA, API |-> 8080, WEB |-> 8081, TLS |-> Nil]
EndpointBA ==
    [Host |-> HostBA, API |-> 8080, WEB |-> 8081,
     TLS |-> Ptr([IgnoreInsecure |-> FALSE])]
EndpointSecure ==
    [Host |-> HostSecure, API |-> 9090, WEB |-> 443,
     TLS |-> Ptr([IgnoreInsecure |-> TRUE])]
Endpoints == {EndpointA, EndpointBA, EndpointSecure}

Resolvers == {Nil, Ptr("myresolver")}

\* The Client that PrepareClients builds for an endpoint (config.go 87-117).
NewClient(endpoint, resolver) ==
    [endpoint |-> endpoint,
     resolver |-> resolver,
     insecure |-> (endpoint.TLS # Nil /\ Deref(endpoint.TLS).IgnoreInsecure)]

----------------------------------------------------------------------------
\* Decoded documents (dynamic.Configuration with only the HTTP section).

KeyWebDocker == <<"w", "@", "d">>
KeyWebFile == <<"w", "@", "f">>
KeyWebB == <<"w", "-", "b", "@", "d">>
KeySecure == <<"w", "-", "s", "e", "c", "u", "r", "e">>
KeyInternal == <<"i">> \o internalSuffix
Keys == {KeyWebDocker, KeyWebFile, KeySecure, KeyInternal}
PollKeys == {KeyWebDocker, KeyWebB, KeyInternal}

Rules == {"r1", "r2"}
ServerCounts == {0, 2}    \* lengths of a source service's server list
BackendURL == <<"h", "t", "t", "p", ":", "/", "/", "1", "0", ".", "0", ".", "0", ".", "1">>

\* A source router; prepareResponse reads only its Rule.
SourceRouters(rules) == {[Rule |-> r] : r \in rules}

\* A source service: its LoadBalancer pointer is nil (a weighted or
\* mirroring service, or an empty object) or holds n servers.
SourceServices(counts) ==
    {[LoadBalancer |-> Nil]} \cup
    {[LoadBalancer |-> Ptr([Servers |-> [i \in 1..n |-> [URL |-> BackendURL]]])] :
        n \in counts}

UpTo(S, n) == {T \in SUBSET S : Cardinality(T) <= n}

MapsOver(keys, n, values) ==
    UNION {[T -> values] : T \in UpTo(keys, n)}

Documents(keys, rules, maxRouters, maxServices, counts) ==
    {[HTTP |-> Ptr([Routers |-> r, Services |-> s, Middlewares |-> EmptyMap])] :
        r \in MapsOver(keys, maxRouters, SourceRouters(rules)),
        s \in MapsOver(keys, maxServices, SourceServices(counts))}

\* json: the body `null` decodes without error and leaves result.HTTP nil.
NullDocument == [HTTP |-> Nil]

\* FetchRaw's guard for calling prepareResponse (client.go 124).
HasRoutersAndServices(doc) ==
    /\ MapLen(Deref(doc.HTTP).Routers) > 0
    /\ MapLen(Deref(doc.HTTP).Services) > 0

----------------------------------------------------------------------------
\* client.go: prepareResponse.

\* Mutant of DerivedName: the key is not cut at '@'.
DerivedName_Unsplit(key, host) == key \o <<"-">> \o host

\* fmt.Sprintf("%s-%s", name, host) of strings.Split(key, "@")[0]
DerivedName(key, host) == SplitFirst(key, "@") \o <<"-">> \o host

\* Mutant of IsInternal: the whole key is compared, not its suffix.
IsInternal_WholeKey(key) == key = internalSuffix

\* client.go 62: the router is skipped as internal
IsInternal(key) == HasSuffix(key, internalSuffix)

\* Mutant of LookupService: the service is found by the name before '@',
\* whatever its provider.
LookupService_ByName(doc, key) ==
    LET services == Deref(doc.HTTP).Services
        same == {k \in DOMAIN services : SplitFirst(k, "@") = SplitFirst(key, "@")}
    IN IF same # {}
       THEN [service |-> Ptr(services[CHOOSE k \in same : TRUE]), ok |-> TRUE]
       ELSE [service |-> Nil, ok |-> FALSE]

\* client.go 69: service, ok := res.HTTP.Services[key]; the map holds
\* pointers, and an absent key yields (nil, false)
LookupService(doc, key) ==
    LET services == Deref(doc.HTTP).Services
    IN IF key \in DOMAIN services
       THEN [service |-> Ptr(services[key]), ok |-> TRUE]
       ELSE [service |-> Nil, ok |-> FALSE]

\* client.go 62-72: the router passes both `continue` filters
Survives(doc, key) == ~IsInternal(key) /\ LookupService(doc, key).ok

\* client.go 74-80
NewHTTPConfiguration ==
    [Routers |-> EmptyMap, Services |-> EmptyMap, Middlewares |-> EmptyMap]

\* client.go 87-92: one server per source server, each at the WEB port
BuildServers(cl, service) ==
    [i \in 1..Len(Deref(service.LoadBalancer).Servers) |->
        [URL |-> buildURI(cl.endpoint, cl.endpoint.WEB, defaultPath)]]

\* client.go 82-85
PlainRouter(name, item) ==
    [Service |-> name, Rule |-> item.Rule, Middlewares |-> <<>>, TLS |-> Nil]

\* client.go 104-108
SecureRouter(name, item, resolver) ==
    [Service |-> name, Rule |-> item.Rule, Middlewares |-> <<>>,
     TLS |-> Ptr([CertResolver |-> Deref(resolver)])]

\* client.go 110-112
RedirectMiddleware ==
    [RedirectScheme |-> [Scheme |-> "https", Permanent |-> TRUE]]

\* client.go 98-113: the additions made when a resolver is configured
WithResolver(cl, http, name, item) ==
    IF cl.resolver = Nil THEN http
    ELSE LET plain == [http.Routers[name] EXCEPT
                          !.Middlewares = Append(@, http2https)]
             routers == Put(Put(http.Routers, name, plain),
                            name \o secureSuffix,
                            SecureRouter(name, item, cl.resolver))
         IN [http EXCEPT !.Routers = routers,
                         !.Middlewares = Put(@, http2https, RedirectMiddleware)]

\* client.go 61-114: the body of the range loop for one key.  acc is
\* [output, panicked]; a nil LoadBalancer is dereferenced at line 88.
RangeBody(cl, doc, acc, key) ==
    IF acc.panicked \/ ~Survives(doc, key) THEN acc
    ELSE LET item == Deref(doc.HTTP).Routers[key]
             service == Deref(LookupService(doc, key).service)
             name == DerivedName(key, cl.endpoint.Host)
             http0 == IF acc.output.HTTP = Nil THEN NewHTTPConfiguration
                      ELSE Deref(acc.output.HTTP)
             http1 == [http0 EXCEPT !.Routers = Put(@, name, PlainRouter(name, item))]
         IN IF service.LoadBalancer = Nil
            THEN [output |-> [HTTP |-> Ptr(http1)], panicked |-> TRUE]
            ELSE LET http2 == [http1 EXCEPT !.Services =
                                  Put(@, name,
                                      [LoadBalancer |->
                                          Ptr([Servers |-> BuildServers(cl, service)])])]
                 IN [output |-> [HTTP |-> Ptr(WithResolver(cl, http2, name, item))],
                     panicked |-> FALSE]

RECURSIVE RangeRouters(_, _, _, _)
RangeRouters(cl, doc, acc, keys) ==
    IF keys = <<>> THEN acc
    ELSE RangeRouters(cl, doc, RangeBody(cl, doc, acc, Head(keys)), Tail(keys))

\* client.go 59-117 for one iteration order of the map res.HTTP.Routers
prepareResponse(cl, doc, keys) ==
    RangeRouters(cl, doc, [output |-> [HTTP |-> Nil], panicked |-> FALSE], keys)

\* Go ranges over a map in an unspecified order: every permutation.
RECURSIVE Orders(_)
Orders(S) ==
    IF S = {} THEN {<<>>}
    ELSE UNION {{<<k>> \o o : o \in Orders(S \ {k})} : k \in S}

----------------------------------------------------------------------------
\* Idle values of the variables a specification does not use.

IdleT ==
    /\ c = NewClient(EndpointA, Nil)
    /\ res = NullDocument
    /\ order = <<>>
    /\ output = [HTTP |-> Nil]
    /\ pc = "idle"

IdleF ==
    /\ clients = <<>>
    /\ served = <<>>
    /\ fpc = <<>>
    /\ sending = <<>>
    /\ ret = <<>>
    /\ sent = <<>>
    /\ out = <<>>
    /\ cap = 0
    /\ received = <<>>

IdleC ==
    /\ cfg = [Endpoints |-> <<>>, TLSResolver |-> Nil]
    /\ cpc = "idle"
    /\ idx = 0
    /\ pidx = 0
    /\ built = <<>>
    /\ probes = <<>>
    /\ cret = [clients |-> Nil, err |-> Nil]

----------------------------------------------------------------------------
\* Specification Spec: prepareResponse applied to every document FetchRaw
\* can pass to it.

TransformDocuments ==
    {d \in Documents(Keys, Rules, MaxRouters, MaxServices, ServerCounts) :
        HasRoutersAndServices(d)}

TransformEndpoints == {EndpointA, EndpointSecure}

Init ==
    /\ c \in {NewClient(e, r) : e \in TransformEndpoints, r \in Resolvers}
    /\ res \in TransformDocuments
    /\ order = <<>>
    /\ output = [HTTP |-> Nil]
    /\ pc = "call"
    /\ IdleF
    /\ IdleC

CallPrepareResponse ==
    /\ pc = "call"
    /\ \E keys \in Orders(DOMAIN Deref(res.HTTP).Routers) :
          LET r == prepareResponse(c, res, keys)
          IN /\ order' = keys
             /\ output' = IF r.panicked THEN output ELSE r.output
             /\ pc' = IF r.panicked THEN "panicked" ELSE "returned"
    /\ UNCHANGED <<c, res, fvars, cvars>>

Next == CallPrepareResponse

Spec == Init /\ [][Next]_vars

----------------------------------------------------------------------------
\* Properties of prepareResponse, checked under Spec.

Returned == pc = "returned"
Host == c.endpoint.Host
SrcRouters == Deref(res.HTTP).Routers
SrcServices == Deref(res.HTTP).Services
OutRouters == IF output.HTTP = Nil THEN EmptyMap ELSE Deref(output.HTTP).Routers
OutServices == IF output.HTTP = Nil THEN EmptyMap ELSE Deref(output.HTTP).Services
OutMiddlewares == IF output.HTTP = Nil THEN EmptyMap ELSE Deref(output.HTTP).Middlewares

\* k ends with suffix.
EndsWith(k, suffix) ==
    /\ Len(suffix) <= Len(k)
    /\ \A i \in 1..Len(suffix) : k[Len(k) - Len(suffix) + i] = suffix[i]

\* The source routers that are not '@internal' and have a service under
\* their exact key, stated on the document alone.
Surviving ==
    {k \in DOMAIN SrcRouters :
        /\ ~EndsWith(k, internalSuffix)
        /\ k \in DOMAIN SrcServices}

\* The part of a key before its first '@', then '-', then the host.
NameOf(k) ==
    LET cut == {i \in 1..Len(k) : k[i] = "@"}
        base == IF cut = {} THEN k
                ELSE SubSeq(k, 1, (CHOOSE i \in cut : \A j \in cut : i <= j) - 1)
    IN base \o <<"-">> \o Host

\* The document with only the routers in keep.
OnlyRouters(doc, keep) ==
    [HTTP |-> Ptr([Deref(doc.HTTP) EXCEPT
        !.Routers = [k \in (DOMAIN @) \cap keep |-> @[k]]])]

\* The document with only the services in keep.
OnlyServices(doc, keep) ==
    [HTTP |-> Ptr([Deref(doc.HTTP) EXCEPT
        !.Services = [k \in (DOMAIN @) \cap keep |-> @[k]]])]

\* The iteration order restricted to the keys in keep.
Restrict(keys, keep) ==
    LET In(k) == k \in keep IN SelectSeq(keys, In)

\* C5 (as claimed): with a resolver, every surviving source router has in
\* the fragment its plain router (source rule, service R, middlewares
\* exactly <<http2https>>, no TLS) and its R-secure router (source rule,
\* service R, no middlewares, the resolver), and the middleware mapping is
\* exactly the one http2https redirect.
C5_ResolverRouters ==
    (Returned /\ c.resolver # Nil) =>
        /\ \A k \in Surviving :
              LET R == NameOf(k)
              IN /\ R \in DOMAIN OutRouters
                 /\ OutRouters[R] =
                       [Service |-> R, Rule |-> SrcRouters[k].Rule,
                        Middlewares |-> <<"http2https">>, TLS |-> Nil]
                 /\ (R \o secureSuffix) \in DOMAIN OutRouters
                 /\ OutRouters[R \o secureSuffix] =
                       [Service |-> R, Rule |-> SrcRouters[k].Rule,
                        Middlewares |-> <<>>,
                        TLS |-> Ptr([CertResolver |-> Deref(c.resolver)])]
        /\ Surviving # {} =>
              OutMiddlewares = [m \in {"http2https"} |->
                  [RedirectScheme |-> [Scheme |-> "https", Permanent |-> TRUE]]]

\* C6 (as claimed): every router key and every service key of the fragment
\* is a source key's part before '@', then '-', then the host, and so ends
\* with the host, with or without a resolver.
C6_KeysEndWithHost ==
    Returned =>
        \A k \in (DOMAIN OutRouters) \cup (DOMAIN OutServices) :
            /\ EndsWith(k, Host)
            /\ \E s \in DOMAIN SrcRouters : k = NameOf(s)

\* C6 (amended): every service key is NameOf a surviving source router and
\* ends with the host; every router key is NameOf a surviving source router
\* or, only with a resolver, such a name followed by '-secure'; without a
\* resolver every router key ends with the host.
C6_KeysDerived ==
    Returned =>
        /\ \A k \in DOMAIN OutServices :
              EndsWith(k, Host) /\ \E s \in Surviving : k = NameOf(s)
        /\ \A k \in DOMAIN OutRouters :
              \E s \in Surviving :
                  \/ k = NameOf(s)
                  \/ c.resolver # Nil /\ k = NameOf(s) \o secureSuffix
        /\ c.resolver = Nil => \A k \in DOMAIN OutRouters : EndsWith(k, Host)
        /\ \A s \in Surviving :
              /\ NameOf(s) \in DOMAIN OutServices
              /\ NameOf(s) \in DOMAIN OutRouters
              /\ c.resolver # Nil => (NameOf(s) \o secureSuffix) \in DOMAIN OutRouters

\* C6 witness: a resolver run returned a '-secure' router key that does not
\* end with the host.
C6_Witness ==
    /\ Returned
    /\ c.resolver # Nil
    /\ \E k \in DOMAIN OutRouters : EndsWith(k, secureSuffix) /\ ~EndsWith(k, Host)

NotInternal == {k \in DOMAIN SrcRouters : ~EndsWith(k, internalSuffix)}

\* C7: the outcome of prepareResponse is its outcome on the document with
\* the '@internal' routers removed (same order of the other routers), and
\* every router and service of the fragment is named after a router that is
\* not '@internal'.
C7_InternalRoutersIgnored ==
    pc # "call" =>
        LET r == prepareResponse(c, OnlyRouters(res, NotInternal),
                                 Restrict(order, NotInternal))
        IN /\ r.panicked = (pc = "panicked")
           /\ Returned => output = r.output
           /\ \A k \in (DOMAIN OutRouters) \cup (DOMAIN OutServices) :
                 \E s \in NotInternal :
                     k = NameOf(s) \/ k = NameOf(s) \o secureSuffix

\* C7 witness: the document had an '@internal' router with a service under
\* the same key, and other routers produced a fragment.
C7_Witness ==
    /\ Returned
    /\ \E k \in DOMAIN SrcRouters :
          EndsWith(k, internalSuffix) /\ k \in DOMAIN SrcServices
    /\ OutRouters # EmptyMap

Paired == (DOMAIN SrcRouters) \cap (DOMAIN SrcServices)

\* C8: the outcome of prepareResponse is its outcome on the document with
\* only the routers and services whose exact key is in both mappings; every
\* entry of the fragment is named after such a router; every service key of
\* the fragment is a router key of it and every router of the fragment
\* references a service of it.
C8_DanglingDropped ==
    pc # "call" =>
        LET r == prepareResponse(c, OnlyServices(OnlyRouters(res, Paired), Paired),
                                 Restrict(order, Paired))
        IN /\ r.panicked = (pc = "panicked")
           /\ Returned => output = r.output
           /\ \A k \in (DOMAIN OutRouters) \cup (DOMAIN OutServices) :
                 \E s \in Paired : k = NameOf(s) \/ k = NameOf(s) \o secureSuffix
           /\ \A k \in DOMAIN OutServices : k \in DOMAIN OutRouters
           /\ \A k \in DOMAIN OutRouters : OutRouters[k].Service \in DOMAIN OutServices

\* C8 witness: a router without a service, a service without a router, and
\* a surviving pair, in one returned call.
C8_Witness ==
    /\ Returned
    /\ \E k \in DOMAIN SrcRouters :
          ~EndsWith(k, internalSuffix) /\ k \notin DOMAIN SrcServices
    /\ \E k \in DOMAIN SrcServices : k \notin DOMAIN SrcRouters
    /\ OutServices # EmptyMap

\* C9 (as claimed): for every surviving source router the service under its
\* derived name has as many servers as the source service, each with the
\* URL scheme://host:webPort/ of the endpoint.
C9_ServerLists ==
    Returned =>
        \A k \in Surviving :
            /\ NameOf(k) \in DOMAIN OutServices
            /\ LET servers == Deref(OutServices[NameOf(k)].LoadBalancer).Servers
                   source == Deref(SrcServices[k].LoadBalancer).Servers
                   scheme == IF c.endpoint.TLS = Nil THEN <<"h", "t", "t", "p">>
                             ELSE <<"h", "t", "t", "p", "s">>
               IN /\ Len(servers) = Len(source)
                  /\ \A i \in 1..Len(servers) :
                        servers[i].URL =
                            scheme \o <<":", "/", "/">> \o Host \o <<":">>
                            \o Itoa(c.endpoint.WEB) \o <<"/">>

----------------------------------------------------------------------------
\* config.go: PrepareClients.

\* config.go 95: the ports probed for one endpoint, in order
ProbePort(e, p) == IF p = 1 THEN e.API ELSE e.WEB

\* The ways one probe can end (config.go 99, 104, 108, or success).
ProbeOutcomes == {"ok", "prepare", "call", "close"}

\* config.go 100, 105, 109
ProbeError(outcome, uri) ==
    IF outcome = "prepare"
    THEN [format |-> "could not prepare request(%s): %w", arg |-> uri, wraps |-> "request"]
    ELSE IF outcome = "call"
    THEN [format |-> "could not call request(%s): %w", arg |-> uri, wraps |-> "transport"]
    ELSE [format |-> "could not close response body: %w", arg |-> <<>>, wraps |-> "close"]

\* Mutant of FailedReturn: the clients built so far are returned.
FailedReturn_Partial(partial, e) == [clients |-> Ptr(partial), err |-> Ptr(e)]

\* config.go 100, 105, 109: what a failed probe returns
FailedReturn(partial, e) == [clients |-> Nil, err |-> Ptr(e)]

\* config.go 120
FinalReturn(all) == [clients |-> Ptr(all), err |-> Nil]

Configs ==
    {[Endpoints |-> eps, TLSResolver |-> r] :
        eps \in UNION {[1..n -> Endpoints] : n \in 0..MaxEndpoints},
        r \in Resolvers}

InitClients ==
    /\ cfg \in Configs
    /\ cpc = "loop"
    /\ idx = 1
    /\ pidx = 1
    /\ built = <<>>
    /\ probes = <<>>
    /\ cret = [clients |-> Nil, err |-> Nil]
    /\ IdleT
    /\ IdleF

\* config.go 95-111: one probe; after the WEB probe of an endpoint
\* succeeds its client is appended (113-117).
Probe ==
    /\ cpc = "loop"
    /\ idx <= Len(cfg.Endpoints)
    /\ \E outcome \in ProbeOutcomes :
          LET endpoint == cfg.Endpoints[idx]
              uri == buildURI(endpoint, ProbePort(endpoint, pidx), defaultPath)
          IN /\ probes' = Append(probes, [uri |-> uri, outcome |-> outcome])
             /\ IF outcome # "ok"
                THEN /\ cret' = FailedReturn(built, ProbeError(outcome, uri))
                     /\ cpc' = "returned"
                     /\ UNCHANGED <<idx, pidx, built>>
                ELSE IF pidx = 1
                THEN /\ pidx' = 2
                     /\ UNCHANGED <<idx, built, cret, cpc>>
                ELSE /\ built' = Append(built, NewClient(endpoint, cfg.TLSResolver))
                     /\ idx' = idx + 1
                     /\ pidx' = 1
                     /\ UNCHANGED <<cret, cpc>>
    /\ UNCHANGED <<cfg, tvars, fvars>>

\* config.go 120: the loop is over
ReturnClients ==
    /\ cpc = "loop"
    /\ idx > Len(cfg.Endpoints)
    /\ cret' = FinalReturn(built)
    /\ cpc' = "returned"
    /\ UNCHANGED <<cfg, idx, pidx, built, probes, tvars, fvars>>

NextClients == Probe \/ ReturnClients

SpecClients == InitClients /\ [][NextClients]_vars

----------------------------------------------------------------------------
\* Properties of PrepareClients, checked under SpecClients.

\* The probes of a configuration in configuration order, the API port
\* before the WEB port.
ExpectedProbes ==
    [j \in 1..(2 * Len(cfg.Endpoints)) |->
        LET e == cfg.Endpoints[(j + 1) \div 2]
            port == IF j % 2 = 1 THEN e.API ELSE e.WEB
            scheme == IF e.TLS = Nil THEN <<"h", "t", "t", "p">>
                      ELSE <<"h", "t", "t", "p", "s">>
        IN scheme \o <<":", "/", "/">> \o e.Host \o <<":">> \o Itoa(port) \o <<"/">>]

ExpectedClients ==
    [i \in 1..Len(cfg.Endpoints) |->
        LET e == cfg.Endpoints[i]
        IN [endpoint |-> e,
            resolver |-> cfg.TLSResolver,
            insecure |-> (e.TLS # Nil /\ e.TLS[1].IgnoreInsecure)]]

AllProbesOk == \A j \in 1..Len(probes) : probes[j].outcome = "ok"

\* C4: the probes follow configuration order, API before WEB; no probe
\* follows a failed one; the call returns either a nil error with exactly
\* the clients of all endpoints in order (every probe made and ok), or an
\* error with a nil client list at the first failed probe.
C4_AllOrNothing ==
    /\ Len(probes) <= Len(ExpectedProbes)
    /\ \A j \in 1..Len(probes) : probes[j].uri = ExpectedProbes[j]
    /\ \A j \in 1..(Len(probes) - 1) : probes[j].outcome = "ok"
    /\ cpc = "loop" => AllProbesOk /\ cret = [clients |-> Nil, err |-> Nil]
    /\ cpc = "returned" =>
          IF AllProbesOk
          THEN /\ Len(probes) = Len(ExpectedProbes)
               /\ cret.err = Nil
               /\ cret.clients = <<ExpectedClients>>
          ELSE /\ cret.err # Nil
               /\ cret.clients = Nil

\* C4 witness: a probe of the second endpoint failed after the first
\* endpoint's client had been built.
C4_Witness ==
    /\ cpc = "returned"
    /\ cret.err # Nil
    /\ Len(built) >= 1
    /\ Len(probes) >= 3

----------------------------------------------------------------------------
\* client.go: httpCall and FetchRaw, one call per client in a poll cycle.

ErrEmptyResponse == "received empty response"

\* What an endpoint's API does with the request of this cycle.
ResponseKinds == {"prepare", "call", "decode", "close", "ok"}

PollDocuments ==
    Documents(PollKeys, {"r1"}, 1, 1, {1}) \cup {NullDocument}

Responses ==
    {[kind |-> k, doc |-> NullDocument] : k \in ResponseKinds \ {"ok"}}
    \cup {[kind |-> "ok", doc |-> d] : d \in PollDocuments}

\* client.go 35-57
httpCall(cl, response) ==
    LET uri == buildURI(cl.endpoint, cl.endpoint.API, defaultRawPath)
    IN IF response.kind = "prepare"
       THEN [res |-> Nil,
             err |-> Ptr([format |-> "could not prepare request for %s: %w",
                          arg |-> uri, wraps |-> "request"])]
       ELSE IF response.kind = "call"
       THEN [res |-> Nil,
             err |-> Ptr([format |-> "could not make request for %s: %w",
                          arg |-> uri, wraps |-> "transport"])]
       ELSE IF response.kind = "decode"
       THEN [res |-> Nil,
             err |-> Ptr([format |-> "could not decode response for %s: %s: %w",
                          arg |-> uri, wraps |-> "json"])]
       ELSE IF response.kind = "close"
       THEN [res |-> Ptr(response.doc),
             err |-> Ptr([format |-> "%w", arg |-> <<>>, wraps |-> "close"])]
       ELSE [res |-> Ptr(response.doc), err |-> Nil]

\* client.go 132
EmptyResponseError(cl) ==
    [format |-> "%w (1client:%q)", arg |-> cl.endpoint.Host, wraps |-> ErrEmptyResponse]

\* client.go 119-132 up to the channel send: the value to send and the
\* error to return, or a panic (line 124 on a nil res.HTTP, line 88 inside
\* prepareResponse).  keys is the iteration order prepareResponse takes.
FetchBranch(cl, response, keys) ==
    LET r == httpCall(cl, response)
    IN IF r.err # Nil
       THEN [panicked |-> FALSE, value |-> Nil, err |-> r.err]
       ELSE IF Deref(r.res).HTTP = Nil
       THEN [panicked |-> TRUE, value |-> Nil, err |-> Nil]
       ELSE IF HasRoutersAndServices(Deref(r.res))
       THEN LET p == prepareResponse(cl, Deref(r.res), keys)
            IN [panicked |-> p.panicked, value |-> Ptr(p.output), err |-> Nil]
       ELSE [panicked |-> FALSE, value |-> Nil, err |-> Ptr(EmptyResponseError(cl))]

\* The router keys of a response's document (none without a document).
RouterKeys(response) ==
    IF response.doc.HTTP = Nil THEN {} ELSE DOMAIN Deref(response.doc.HTTP).Routers

PollEndpointLists ==
    {<<EndpointA, EndpointBA>>, <<EndpointBA, EndpointSecure>>,
     <<EndpointSecure, EndpointA>>}

InitPoll ==
    /\ \E eps \in PollEndpointLists, r \in Resolvers :
          clients = [i \in DOMAIN eps |-> NewClient(eps[i], r)]
    /\ served \in [DOMAIN clients -> Responses]
    /\ fpc = [i \in DOMAIN clients |-> "start"]
    /\ sending = [i \in DOMAIN clients |-> Nil]
    /\ ret = [i \in DOMAIN clients |-> Nil]
    /\ sent = [i \in DOMAIN clients |-> <<>>]
    /\ out = <<>>
    /\ cap \in 0..ChanCap
    /\ received = <<>>
    /\ IdleT
    /\ IdleC

\* client.go 120-132: httpCall and the branch taken, up to the send.
Fetch(i) ==
    /\ fpc[i] = "start"
    /\ \E keys \in Orders(RouterKeys(served[i])) :
          LET b == FetchBranch(clients[i], served[i], keys)
          IN /\ fpc' = [fpc EXCEPT ![i] = IF b.panicked THEN "panicked" ELSE "send"]
             /\ sending' = [sending EXCEPT ![i] = IF b.panicked THEN Nil ELSE b.value]
             /\ ret' = [ret EXCEPT ![i] = b.err]
    /\ UNCHANGED <<clients, served, sent, out, cap, received, tvars, cvars>>

\* The collector receives once per client.
CollectorWaiting == Len(received) < Len(clients)

\* `out <- v` completes into the buffer (client.go 121, 125, 130).
SendBuffered(i) ==
    /\ fpc[i] = "send"
    /\ Len(out) < cap
    /\ out' = Append(out, sending[i])
    /\ sent' = [sent EXCEPT ![i] = Append(@, sending[i])]
    /\ fpc' = [fpc EXCEPT ![i] = "return"]
    /\ UNCHANGED <<clients, served, sending, ret, cap, received, tvars, cvars>>

\* `out <- v` on an unbuffered channel completes with the receive.
SendDirect(i) ==
    /\ fpc[i] = "send"
    /\ cap = 0
    /\ CollectorWaiting
    /\ received' = Append(received, sending[i])
    /\ sent' = [sent EXCEPT ![i] = Append(@, sending[i])]
    /\ fpc' = [fpc EXCEPT ![i] = "return"]
    /\ UNCHANGED <<clients, served, sending, ret, out, cap, tvars, cvars>>

\* client.go 123, 127, 132
Return(i) ==
    /\ fpc[i] = "return"
    /\ fpc' = [fpc EXCEPT ![i] = "done"]
    /\ UNCHANGED <<clients, served, sending, ret, sent, out, cap, received, tvars, cvars>>

\* The collector takes a buffered value.
Receive ==
    /\ CollectorWaiting
    /\ out # <<>>
    /\ received' = Append(received, Head(out))
    /\ out' = Tail(out)
    /\ UNCHANGED <<clients, served, fpc, sending, ret, sent, cap, tvars, cvars>>

NextPoll ==
    \/ \E i \in DOMAIN clients : Fetch(i)
    \/ \E i \in DOMAIN clients : SendBuffered(i)
    \/ \E i \in DOMAIN clients : SendDirect(i)
    \/ \E i \in DOMAIN clients : Return(i)
    \/ Receive

SpecPoll == InitPoll /\ [][NextPoll]_vars

----------------------------------------------------------------------------
\* Properties of a poll cycle, checked under SpecPoll.

Calls == DOMAIN clients
Finished(i) == fpc[i] \in {"done", "panicked"}
Decoded(i) == served[i].kind = "ok"
ServedRouters(i) ==
    IF served[i].doc.HTTP = Nil THEN EmptyMap ELSE served[i].doc.HTTP[1].Routers
ServedServices(i) ==
    IF served[i].doc.HTTP = Nil THEN EmptyMap ELSE served[i].doc.HTTP[1].Services

\* The router (service) keys of the fragment call i sent, if it sent one.
SentRouterKeys(i) ==
    IF sent[i] = <<>> \/ sent[i][1] = Nil \/ sent[i][1][1].HTTP = Nil THEN {}
    ELSE DOMAIN sent[i][1][1].HTTP[1].Routers
SentServiceKeys(i) ==
    IF sent[i] = <<>> \/ sent[i][1] = Nil \/ sent[i][1][1].HTTP = Nil THEN {}
    ELSE DOMAIN sent[i][1][1].HTTP[1].Services

\* C1 (as claimed): the fragments of two endpoints with distinct hosts
\* share no router key and no service key.
C1_NoCollision ==
    \A i, j \in Calls :
        clients[i].endpoint.Host # clients[j].endpoint.Host =>
            /\ SentRouterKeys(i) \cap SentRouterKeys(j) = {}
            /\ SentServiceKeys(i) \cap SentServiceKeys(j) = {}

\* C2 (as claimed): a call that has got past its send has sent exactly one
\* value, non-nil exactly when its error is nil; every call ends by
\* returning; and when nothing can move any more, every call has returned
\* and the collector holds one value per endpoint.
C2_OneSendPerCall ==
    /\ \A i \in Calls :
          /\ fpc[i] \in {"return", "done"} =>
                Len(sent[i]) = 1 /\ ((sent[i][1] # Nil) <=> (ret[i] = Nil))
          /\ fpc[i] \in {"start", "send"} => sent[i] = <<>>
          /\ fpc[i] # "panicked"
    /\ ~(ENABLED NextPoll) =>
          /\ \A i \in Calls : fpc[i] = "done"
          /\ Len(received) = Len(clients)

\* C3 (as claimed): a call whose document decoded with zero routers or zero
\* services ends by returning an error that wraps ErrEmptyResponse and
\* names the host, having sent nil; a call whose document has a router and
\* a service never returns such an error.
C3_EmptyResponse ==
    \A i \in Calls :
        (Decoded(i) /\ Finished(i)) =>
            IF ServedRouters(i) = EmptyMap \/ ServedServices(i) = EmptyMap
            THEN /\ fpc[i] = "done"
                 /\ ret[i] # Nil
                 /\ ret[i][1].wraps = ErrEmptyResponse
                 /\ ret[i][1].arg = clients[i].endpoint.Host
                 /\ sent[i] = <<Nil>>
            ELSE ~(ret[i] # Nil /\ ret[i][1].wraps = ErrEmptyResponse)

\* C10 (as claimed): a call whose document has a router and a service but
\* no surviving router returns nil and has sent a fragment whose three
\* mappings exist and are empty.
C10_EmptyFragment ==
    \A i \in Calls :
        (/\ Decoded(i)
         /\ fpc[i] = "done"
         /\ ServedRouters(i) # EmptyMap
         /\ ServedServices(i) # EmptyMap
         /\ \A k \in DOMAIN ServedRouters(i) :
               EndsWith(k, internalSuffix) \/ k \notin DOMAIN ServedServices(i))
        => /\ ret[i] = Nil
           /\ Len(sent[i]) = 1
           /\ sent[i][1] # Nil
           /\ sent[i][1][1].HTTP # Nil
           /\ sent[i][1][1].HTTP[1] =
                 [Routers |-> EmptyMap, Services |-> EmptyMap, Middlewares |-> EmptyMap]

====
